---- MODULE Spec2Model ----
(***************************************************************************)
(* A model of gitbuddy's orchestration core: the focus router of App, the  *)
(* program-event dispatch, the Files / Diff / Log panels, the push worker  *)
(* and the backend push call of git/remote.rs.                             *)
(***************************************************************************)
EXTENDS Integers, Sequences, FiniteSets, TLC

(***************************************************************************)
(* Bounds of the model.                                                    *)
(***************************************************************************)
MaxEvents == 2
MaxPush == 2
MaxLines == 2
MaxCommits == 2
MaxProgress == 2
MaxPosition == 3
MaxHeight == 2
MaxTotal == 2
MaxElapsed == 3
MaxTty == 2
MaxChan == 2
MaxSize == 4
MaxAmount == 3
MaxBranches == 2
MaxSelected == 3

(***************************************************************************)
(* ComponentType: the values matched by App::_focus (app.rs), and the      *)
(* remote prompt target that FileComponent::push posts (files.rs:148).     *)
(***************************************************************************)
AppComponentType ==
    {"LogComponent", "DiffComponent", "ErrorComponent", "BranchComponent",
     "FilesComponent", "CommitComponent", "PushComponent", "None"}

ComponentType == AppComponentType \cup {"RemotePopupComponent"}

\* The fields of App that carry a focus flag.
Fields ==
    {"logs", "diff", "error_popup", "branches", "files", "commit_popup", "push_popup"}

Modals == {"commit_popup", "push_popup", "error_popup"}

Messages == {"auth failed", "not found"}

ErrorType == [kind : {"GitError", "Unknown"}, msg : Messages]

VARIABLES
    focused,            \* Fields -> BOOLEAN: each component's `focused` flag
    focused_component,  \* App.focused_component
    pc,                 \* main thread: "loop", or "focus" between the two _focus calls
    target,             \* argument of the focus call in progress
    error_message,      \* error_popup's message
    push_message,       \* push_popup's message
    events,             \* the ProgramEvent channel, oldest first
    workers,            \* push workers: [running, settle]
    files,              \* FileComponent: [files, position]
    diff,               \* DiffComponent: [diffs, window]
    logs,               \* LogComponent: [logs, position]
    repo,               \* the repository behind the backend calls
    panel,              \* the panel a component-level run exercises
    pushfn,             \* a call of git::remote::push: [pc, total, sent, returned, pushes, upstream]
    mainfn,             \* main.rs: the input thread, the channel, run_app and the terminal
    others,             \* the snapshots of BranchComponent and StatusComponent
    branchfn,           \* main.rs: the branch lists, BranchState and a checkout_branch call
    last                \* the handler that ran last: [op, arg, prev, fx]

focusVars == <<focused, focused_component, pc, target>>
appVars == <<error_message, push_message, events, workers>>
panelVars == <<files, diff, logs>>
vars == <<focused, focused_component, pc, target, error_message, push_message,
          events, workers, files, diff, logs, repo, panel, pushfn, mainfn, others, branchfn, last>>

NoOp == [op |-> "init", arg |-> "", prev |-> "None", fx |-> <<>>]

Did(op, arg, fx) == [op |-> op, arg |-> arg, prev |-> focused_component, fx |-> fx]

(***************************************************************************)
(* App::_focus (app.rs:129-156).  The match arm of a component type names  *)
(* the field whose focus() is called; None has an empty arm.  The remote   *)
(* prompt target has no arm in app.rs and App has no field for it.         *)
(***************************************************************************)
FieldOf(component) ==
    CASE component = "LogComponent"    -> "logs"
      [] component = "DiffComponent"   -> "diff"
      [] component = "ErrorComponent"  -> "error_popup"
      [] component = "BranchComponent" -> "branches"
      [] component = "FilesComponent"  -> "files"
      [] component = "CommitComponent" -> "commit_popup"
      [] component = "PushComponent"   -> "push_popup"
      [] OTHER                         -> "none"

\* A mutant of _focus: the deactivating call is lost.
FocusNeverClears(flags, component, focus) ==
    IF FieldOf(component) \in Fields /\ focus
    THEN [flags EXCEPT ![FieldOf(component)] = TRUE]
    ELSE flags

\* The flags after _focus(component, focus): Component::focus sets self.focused.
_focus(flags, component, focus) ==
    IF FieldOf(component) \in Fields
    THEN [flags EXCEPT ![FieldOf(component)] = focus]
    ELSE flags

(***************************************************************************)
(* App::focus (app.rs:123-127), in its two steps.                          *)
(***************************************************************************)
FocusDeactivate(component) ==
    /\ focused' = _focus(focused, focused_component, FALSE)
    /\ focused_component' = focused_component
    /\ pc' = "focus"
    /\ target' = component

FocusActivate ==
    /\ pc = "focus"
    /\ focused' = _focus(focused, target, TRUE)
    /\ focused_component' = target
    /\ pc' = "loop"
    /\ target' = "None"
    /\ UNCHANGED <<appVars, panelVars, repo, panel, pushfn, mainfn, others, branchfn, last>>

\* ErrorComponent::set_git_error / set_message, called by display_error.
SetError(old, error) == error.msg

\* A mutant of display_error: the message is set and the dialog is not focused.
DisplayErrorNoFocus(error) ==
    /\ error_message' = SetError(error_message, error)
    /\ UNCHANGED focusVars

\* App::display_error (app.rs:111-121): set the message, then focus the dialog.
display_error(error) ==
    /\ error_message' = SetError(error_message, error)
    /\ FocusDeactivate("ErrorComponent")

(***************************************************************************)
(* The repository behind the backend calls: the status kind of each path,  *)
(* the diff lines, the number of commits and whether a remote is set up.   *)
(***************************************************************************)
PathSeq == <<"a.rs", "b.rs">>

Paths == {PathSeq[i] : i \in 1..Len(PathSeq)}

StagedKinds == {"IndexModified", "Added", "Deleted"}

Kinds == {"Modified"} \cup StagedKinds

Lines == {"+x", "-y"}

SeqsUpTo(S, n) == UNION {[1..k -> S] : k \in 0..n}

Diffs == SeqsUpTo(Lines, MaxLines)

Min(a, b) == IF a < b THEN a ELSE b

Max(a, b) == IF a > b THEN a ELSE b

\* git::status::get_file_status: one entry per path that is not clean.
get_file_status(r) ==
    LET all == [i \in 1..Len(PathSeq) |->
                   [path |-> PathSeq[i], status_type |-> r.status[PathSeq[i]]]]
    IN  SelectSeq(all, LAMBDA e : e.status_type # "Clean")

\* git::gitdiff::get_diff
get_diff(r) == r.diff

\* git::gitlog::fetch_history: the commits, newest first.
fetch_history(r) == [i \in 1..r.history |-> r.history + 1 - i]

\* git::stage::stage_file / stage_all: an unstaged change of the path goes to the index.
stage(r, which) ==
    [r EXCEPT !.status = [p \in Paths |->
        IF p \in which /\ r.status[p] = "Modified" THEN "IndexModified" ELSE r.status[p]]]

\* git::stage::unstage_file / unstage_all: a staged change of the path leaves the index.
unstage(r, which) ==
    [r EXCEPT !.status = [p \in Paths |->
        IF p \in which /\ r.status[p] \in StagedKinds THEN "Modified" ELSE r.status[p]]]

\* An effect of a handler: a post on the event channel, a backend call, a spawn.
Fx(kind, type, arg) == [kind |-> kind, type |-> type, arg |-> arg]

Post(type, arg) == Fx("post", type, arg)

Call(type, arg) == Fx("call", type, arg)

\* The events a handler posted, in order.
Posts(fx) ==
    LET ps == SelectSeq(fx, LAMBDA e : e.kind = "post")
    IN  [i \in 1..Len(ps) |-> [type |-> ps[i].type, arg |-> ps[i].arg]]

Calls(fx) == SelectSeq(fx, LAMBDA e : e.kind # "post")

(***************************************************************************)
(* FileComponent (components/files.rs).                                    *)
(***************************************************************************)
Placeholder == [path |-> "Working tree clean", status_type |-> "Unmodified"]

\* A mutant of update: the placeholder row is pushed only when the snapshot
\* before the call did not hold it.
FilesUpdateTogglesPlaceholder(f, r, ok) ==
    IF ~ok THEN f
    ELSE LET got == get_file_status(r)
         IN  [f EXCEPT !.files = IF got # <<>> THEN got
                                 ELSE IF f.files = <<Placeholder>> THEN <<>>
                                 ELSE <<Placeholder>>]

\* Component::update (files.rs:178-188); ok: whether get_file_status succeeded.
FilesUpdate(f, r, ok) ==
    IF ~ok THEN f
    ELSE LET got == get_file_status(r)
         IN  [f EXCEPT !.files = IF got = <<>> THEN <<Placeholder>> ELSE got]

\* A mutant of has_files_staged: a deleted entry does not count as staged.
StagedWithoutDeleted(f) ==
    \E i \in 1..Len(f.files) : f.files[i].status_type \in {"IndexModified", "Added"}

\* FileComponent::has_files_staged (files.rs:129-135)
has_files_staged(f) ==
    \E i \in 1..Len(f.files) :
        \/ f.files[i].status_type = "IndexModified"
        \/ f.files[i].status_type = "Added"
        \/ f.files[i].status_type = "Deleted"

\* FileComponent::commit (files.rs:81-87)
commit(f) ==
    IF has_files_staged(f) THEN <<Post("Focus", "CommitComponent")>> ELSE <<>>

\* ScrollableComponent::scroll_down / scroll_up on the list position.
scroll_down(f, i) ==
    [f EXCEPT !.position = IF Len(f.files) = 0 THEN 0
                           ELSE Min(f.position + i, Len(f.files) - 1)]

scroll_up(f, i) == [f EXCEPT !.position = Max(f.position - i, 0)]

\* What a handler leaves behind: the component, the repository, its effects, its result.
Outcome(comp, r, fx, res) == [comp |-> comp, repo |-> r, fx |-> fx, res |-> res]

\* FileComponent::stage_file / unstage_file (files.rs:156-174); ok: the backend call succeeded.
stage_file(f, r, all, ok) ==
    IF all
    THEN Outcome(f, IF ok THEN stage(r, Paths) ELSE r, <<Call("stage_all", "")>>,
                 IF ok THEN "Ok" ELSE "Err")
    ELSE IF f.position + 1 <= Len(f.files)
    THEN LET path == f.files[f.position + 1].path
         IN  Outcome(f, IF ok THEN stage(r, {path}) ELSE r, <<Call("stage_file", path)>>,
                     IF ok THEN "Ok" ELSE "Err")
    ELSE Outcome(f, r, <<>>, "Ok")

unstage_file(f, r, all, ok) ==
    IF all
    THEN Outcome(f, IF ok THEN unstage(r, Paths) ELSE r, <<Call("unstage_all", "")>>,
                 IF ok THEN "Ok" ELSE "Err")
    ELSE IF f.position + 1 <= Len(f.files)
    THEN LET path == f.files[f.position + 1].path
         IN  Outcome(f, IF ok THEN unstage(r, {path}) ELSE r, <<Call("unstage_file", path)>>,
                     IF ok THEN "Ok" ELSE "Err")
    ELSE Outcome(f, r, <<>>, "Ok")

\* The Error event FileComponent::commit_full posts for an outcome of `git commit`.
CommitFullError(how) ==
    CASE how = "spawn_failed" -> <<Post("Unknown", "not found")>>
      [] how = "wait_failed"  -> <<Post("Unknown", "not found")>>
      [] how = "stderr"       -> <<Post("Unknown", "auth failed")>>
      [] OTHER                -> <<>>

\* FileComponent::commit_full (files.rs:89-127); how: the outcome of the child
\* process.  String::from_utf8(output.stderr).expect(..) (files.rs:102-105)
\* panics on a stderr that is not UTF-8, before anything else is sent.
commit_full(f, r, how) ==
    IF how = "stderr_not_utf8"
    THEN Outcome(f, r, <<Fx("lock", "input_lock", ""), Call("git commit", "")>>, "Panic")
    ELSE
    Outcome(f,
            IF how = "ok" /\ (\E p \in Paths : r.status[p] \in StagedKinds)
            THEN [r EXCEPT !.history = @ + 1,
                           !.status = [p \in Paths |->
                               IF r.status[p] \in StagedKinds THEN "Clean" ELSE r.status[p]]]
            ELSE r,
            <<Fx("lock", "input_lock", ""), Call("git commit", "")>>
                \o CommitFullError(how)
                \o <<Post("ClearTerminal", ""), Fx("unpark", "input_lock", "")>>,
            "Ok")

\* git::remote::push as FileComponent::push calls it: the push popup is focused
\* and one worker is started for the backend push.
PushStart == <<Post("Focus", "PushComponent"), Fx("spawn", "push", "")>>

\* A mutant of FileComponent::push: the backend push runs inside the key handler.
PushInline(f, r, ok) ==
    IF ~ok THEN Outcome(f, r, <<Call("get_remote", "")>>, "Err")
    ELSE IF r.remote
    THEN Outcome(f, r, <<Call("get_remote", ""), Call("push", "")>>, "Ok")
    ELSE Outcome(f, r, <<Call("get_remote", ""), Post("Focus", "RemotePopupComponent")>>, "Ok")

\* FileComponent::push (files.rs:137-154); ok: get_remote succeeded.
push(f, r, ok) ==
    IF ~ok THEN Outcome(f, r, <<Call("get_remote", "")>>, "Err")
    ELSE IF r.remote
    THEN Outcome(f, r, <<Call("get_remote", "")>> \o PushStart, "Ok")
    ELSE Outcome(f, r, <<Call("get_remote", ""), Post("Focus", "RemotePopupComponent")>>, "Ok")

Keys == {"j", "k", "a", "A", "s", "u", "U", "c", "C", "p", "^d", "^u", "^j", "^k", "Esc"}

Hows == {"ok", "err", "spawn_failed", "wait_failed", "stderr", "stderr_not_utf8"}

\* The outcomes of the calls a key can make in FileComponent::handle_event.
FilesHows(key) ==
    CASE key \in {"a", "A", "s", "u", "p"} -> {"ok", "err"}
      [] key = "C" -> {"ok", "spawn_failed", "wait_failed", "stderr", "stderr_not_utf8"}
      [] OTHER -> {"ok"}

\* A mutant of FileComponent::handle_event: the focus check is missing.
FilesHandleEventUnguarded(f, isFocused, r, key, how) ==
    CASE key = "j" -> Outcome(scroll_down(f, 1), r, <<>>, "Ok")
      [] key = "k" -> Outcome(scroll_up(f, 1), r, <<>>, "Ok")
      [] key = "c" -> Outcome(f, r, commit(f), "Ok")
      [] OTHER -> Outcome(f, r, <<>>, "Ok")

\* Component::handle_event (files.rs:190-209)
FilesHandleEvent(f, isFocused, r, key, how) ==
    IF ~isFocused THEN Outcome(f, r, <<>>, "Ok")
    ELSE CASE key = "j" -> Outcome(scroll_down(f, 1), r, <<>>, "Ok")
           [] key = "k" -> Outcome(scroll_up(f, 1), r, <<>>, "Ok")
           [] key = "a" -> stage_file(f, r, TRUE, how = "ok")
           [] key = "A" -> unstage_file(f, r, TRUE, how = "ok")
           [] key = "s" -> stage_file(f, r, FALSE, how = "ok")
           [] key = "u" -> unstage_file(f, r, FALSE, how = "ok")
           [] key = "c" -> Outcome(f, r, commit(f), "Ok")
           [] key = "C" -> commit_full(f, r, how)
           [] key = "p" -> push(f, r, how = "ok")
           [] OTHER -> Outcome(f, r, <<>>, "Ok")

(***************************************************************************)
(* ListWindow (list_window.rs): offset, height, size and selected.         *)
(***************************************************************************)
\* ListWindow::new(0, 0, 0, len, 0), as DiffComponent::new builds it.
NewWindow(len) == [offset |-> 0, height |-> 0, size |-> len, selected |-> 0]

\* A mutant of the offset adjustment: the selected row always becomes the top row.
FollowToTop(offset, height, sel) == sel

\* The least change of the offset that keeps `sel` inside the window.
Follow(offset, height, sel) ==
    IF sel < offset \/ height = 0 THEN sel
    ELSE IF sel >= offset + height THEN sel - height + 1
    ELSE offset

WindowScroll(w, dir, amount) ==
    LET sel == IF w.size = 0 THEN 0
               ELSE IF dir = "Down" THEN Min(w.selected + amount, w.size - 1)
               ELSE Max(w.selected - amount, 0)
    IN  [w EXCEPT !.selected = sel, !.offset = Follow(w.offset, w.height, sel)]

WindowReset(w) == [w EXCEPT !.offset = 0, !.selected = 0]

WindowSetSize(w, n) == [w EXCEPT !.size = n]

WindowSetHeight(w, h) ==
    [w EXCEPT !.height = h, !.offset = Follow(w.offset, h, w.selected)]

(***************************************************************************)
(* DiffComponent (components/diff.rs).                                     *)
(***************************************************************************)
\* DiffComponent::new (diff.rs:46-58)
NewDiff(r) == [diffs |-> get_diff(r), window |-> NewWindow(Len(get_diff(r)))]

\* DiffComponent::render_diff (diff.rs:135-138)
render_diff(d) == [d EXCEPT !.window = WindowReset(d.window)]

\* DiffComponent::update (diff.rs:92-101); ok: whether get_diff succeeded.
DiffUpdate(d, r, ok) ==
    IF ~ok THEN d
    ELSE LET new == get_diff(r)
         IN  IF Len(new) # Len(d.diffs)
             THEN [diffs |-> new,
                   window |-> WindowSetSize(render_diff(d).window, Len(new))]
             ELSE d

\* DiffComponent::draw (diff.rs:62-90), as far as it changes the component.
DiffDraw(d, height) == [d EXCEPT !.window = WindowSetHeight(d.window, height)]

\* DiffComponent::handle_event (diff.rs:103-124)
DiffHandleEvent(d, isFocused, key) ==
    IF ~isFocused THEN d
    ELSE CASE key = "j"  -> [d EXCEPT !.window = WindowScroll(d.window, "Down", 1)]
           [] key = "k"  -> [d EXCEPT !.window = WindowScroll(d.window, "Up", 1)]
           [] key = "^d" ->
                [d EXCEPT !.window = WindowScroll(d.window, "Down", d.window.height \div 2)]
           [] key = "^u" ->
                [d EXCEPT !.window = WindowScroll(d.window, "Up", d.window.height \div 2)]
           [] OTHER -> d

(***************************************************************************)
(* LogComponent (components/log.rs).                                       *)
(***************************************************************************)
\* Stands for usize::MAX, the value 0 - 1 wraps to; positions stay far below it.
UsizeMax == 2^30

\* LogComponent::update (log.rs:70-73); ok: whether fetch_history succeeded.
LogUpdate(l, r, ok) == IF ok THEN [l EXCEPT !.logs = fetch_history(r)] ELSE l

\* LogComponent::increment_position (log.rs:90-93)
increment_position(l) == [l EXCEPT !.position = Max(l.position - 1, 0)]

\* LogComponent::decrement_position (log.rs:95-100); checked: the build traps overflow.
decrement_position(l, checked) ==
    IF Len(l.logs) = 0 /\ checked THEN [comp |-> l, res |-> "Panic"]
    ELSE LET lim == IF Len(l.logs) = 0 THEN UsizeMax ELSE Len(l.logs) - 1
         IN  [comp |-> IF l.position < lim THEN [l EXCEPT !.position = @ + 1] ELSE l,
              res |-> "Ok"]

\* LogComponent::handle_event (log.rs:75-88)
LogHandleEvent(l, isFocused, key, checked) ==
    IF ~isFocused THEN [comp |-> l, res |-> "Ok"]
    ELSE CASE key = "^j" -> decrement_position(l, checked)
           [] key = "^k" -> [comp |-> increment_position(l), res |-> "Ok"]
           [] OTHER -> [comp |-> l, res |-> "Ok"]

(***************************************************************************)
(* App::new (app.rs:48-62) over a repository r.                            *)
(***************************************************************************)
BranchNames == {"main", "dev"}

Repos ==
    [status : [Paths -> Kinds \cup {"Clean"}], diff : Diffs,
     history : 0..MaxCommits, remote : BOOLEAN, branch : BranchNames]

\* BranchComponent::new and StatusComponent::new: nothing read yet.
NewOthers == [branches |-> "", status |-> ""]

\* BranchComponent::update and StatusComponent::update: the current branch is read.
OthersUpdate(o, r, which) == [o EXCEPT ![which] = r.branch]

NewApp(r) ==
    /\ focused = [c \in Fields |-> FALSE]
    /\ focused_component = "None"
    /\ pc = "loop"
    /\ target = "None"
    /\ error_message = ""
    /\ push_message = ""
    /\ events = <<>>
    /\ workers = [running |-> 0, settle |-> 0]
    /\ files = [files |-> <<>>, position |-> 0]
    /\ diff = NewDiff(r)
    /\ logs = [logs |-> <<>>, position |-> 0]
    /\ others = NewOthers
    /\ repo = r
    /\ last = NoOp

\* No call of git::remote::push is under way.
NoPush ==
    [pc |-> "idle", total |-> 0, current |-> 0, sent |-> <<>>, returned |-> <<>>,
     pushes |-> 0, upstream |-> 0, failed |-> "none"]

\* main.rs before main has run: no thread, nothing typed, the terminal as the
\* shell left it.
NoMain ==
    [ipc |-> "idle", elapsed |-> 0, timeout |-> 0, tty |-> <<>>, rx |-> <<>>,
     iter |-> <<>>, woke |-> FALSE, arrived |-> FALSE,
     mpc |-> "idle", res |-> "none", ret |-> "none", quit |-> FALSE,
     recv_failed |-> FALSE, raw |-> FALSE, left_screen |-> FALSE, cursor |-> TRUE,
     draws |-> 0, handled |-> "none"]

\* The branch screen of main.rs at the start of run_app (BranchState::new,
\* main.rs:52-60, and the two select(Some(0)) of main.rs:132-133), over a
\* repository with one local branch.  locals, remotes, head and dirty are the
\* repository; key, before, ret, completed and panic record the last key
\* handled and how its handler ended.
NoBranch ==
    [widget |-> "Local", local |-> 0, remote |-> 0, show_delete_branch |-> FALSE,
     locals |-> <<"main">>, remotes |-> <<>>, head |-> "refs/heads/main",
     dirty |-> FALSE, key |-> "", before |-> "", ret |-> "none",
     completed |-> FALSE, panic |-> "none"]

BaseRepo ==
    [status |-> [p \in Paths |-> "Modified"], diff |-> <<"+x">>, history |-> 1,
     remote |-> TRUE, branch |-> "main"]

(***************************************************************************)
(* One panel on its own: focus, update, handle_event and draw calls on the *)
(* panel, with the repository changing between the calls.  The events a    *)
(* handler posts are read off as they are sent.                            *)
(***************************************************************************)
Panels == {"files", "diff", "logs"}

InitPanels == NewApp(BaseRepo) /\ panel \in Panels /\ pushfn = NoPush /\ mainfn = NoMain /\ branchfn = NoBranch

PanelFocus ==
    \E b \in BOOLEAN :
        /\ focused' = [focused EXCEPT ![panel] = b]
        /\ last' = Did("focus", IF b THEN "true" ELSE "false", <<>>)
        /\ UNCHANGED <<focused_component, pc, target, appVars, panelVars, repo, panel, pushfn, mainfn, others, branchfn>>

\* update of the panel under test; the record of the call notes whether the
\* call before it was an update that returned Ok.
PanelUpdate ==
    \E ok \in BOOLEAN :
        /\ files' = IF panel = "files" THEN FilesUpdate(files, repo, ok) ELSE files
        /\ diff' = IF panel = "diff" THEN DiffUpdate(diff, repo, ok) ELSE diff
        /\ logs' = IF panel = "logs" THEN LogUpdate(logs, repo, ok) ELSE logs
        /\ last' = Did("update", IF ok THEN "Ok" ELSE "Err",
                        IF last.op = "update" /\ last.arg = "Ok"
                        THEN <<Fx("arg", "again", "")>> ELSE <<>>)
        /\ UNCHANGED <<focusVars, appVars, repo, panel, pushfn, mainfn, others, branchfn>>

FilesKey ==
    /\ panel = "files"
    /\ pc = "loop"
    /\ \E key \in Keys : \E how \in FilesHows(key) :
        LET out == FilesHandleEvent(files, focused["files"], repo, key, how)
        IN  /\ out.repo.history <= MaxCommits
            /\ files' = out.comp
            /\ repo' = out.repo
            /\ pc' = IF out.res = "Panic" THEN "panicked" ELSE pc
            /\ last' = Did("key", key, out.fx)
            /\ UNCHANGED <<focused, focused_component, target, appVars, diff, logs,
                           panel, pushfn, mainfn, others, branchfn>>

DiffKey ==
    /\ panel = "diff"
    /\ pc = "loop"
    /\ \E key \in Keys :
        /\ diff' = DiffHandleEvent(diff, focused["diff"], key)
        /\ last' = Did("key", key, <<>>)
        /\ UNCHANGED <<focusVars, appVars, files, logs, repo, panel, pushfn, mainfn, others, branchfn>>

LogKey ==
    /\ panel = "logs"
    /\ pc = "loop"
    /\ \E key \in Keys : \E checked \in BOOLEAN :
        LET out == LogHandleEvent(logs, focused["logs"], key, checked)
        IN  /\ out.comp.position <= MaxPosition
            /\ logs' = out.comp
            /\ pc' = IF out.res = "Panic" THEN "panicked" ELSE pc
            /\ last' = Did("key", key, <<>>)
            /\ UNCHANGED <<focused, focused_component, target, appVars, files, diff,
                           repo, panel, pushfn, mainfn, others, branchfn>>

PanelDraw ==
    /\ panel = "diff"
    /\ \E h \in 0..MaxHeight :
        /\ diff' = DiffDraw(diff, h)
        /\ last' = Did("draw", "", <<>>)
        /\ UNCHANGED <<focusVars, appVars, files, logs, repo, panel, pushfn, mainfn, others, branchfn>>

\* The working tree, the index or the history changes behind the panel's back.
BackendChange ==
    /\ \/ /\ panel = "files"
          /\ \E p \in Paths : \E k \in Kinds \cup {"Clean"} :
                repo' = [repo EXCEPT !.status[p] = k]
       \/ /\ panel = "diff"
          /\ \E d \in Diffs : repo' = [repo EXCEPT !.diff = d]
       \/ /\ panel = "logs"
          /\ \E h \in 0..MaxCommits : repo' = [repo EXCEPT !.history = h]
    /\ repo' # repo
    /\ last' = Did("backend", "", <<>>)
    /\ UNCHANGED <<focusVars, appVars, panelVars, panel, pushfn, mainfn, others, branchfn>>

NextPanels ==
    \/ PanelFocus
    \/ PanelUpdate
    \/ FilesKey
    \/ DiffKey
    \/ LogKey
    \/ PanelDraw
    \/ BackendChange

SpecPanels == InitPanels /\ [][NextPanels]_vars

(***************************************************************************)
(* The focus router on its own: any sequence of focus and display_error    *)
(* calls on a new App.                                                     *)
(***************************************************************************)
InitFocus == NewApp(BaseRepo) /\ panel = "none" /\ pushfn = NoPush /\ mainfn = NoMain /\ branchfn = NoBranch

CallFocus ==
    \E component \in ComponentType :
        /\ pc = "loop"
        /\ FocusDeactivate(component)
        /\ last' = Did("focus", component, <<>>)
        /\ UNCHANGED <<appVars, panelVars, repo, panel, pushfn, mainfn, others, branchfn>>

CallDisplayError ==
    \E error \in ErrorType :
        /\ pc = "loop"
        /\ display_error(error)
        /\ last' = Did("display_error", error.kind, <<Fx("arg", error.kind, error.msg)>>)
        /\ UNCHANGED <<push_message, events, workers, panelVars, repo, panel, pushfn, mainfn, others, branchfn>>

NextFocus == CallFocus \/ FocusActivate \/ CallDisplayError

SpecFocus == InitFocus /\ [][NextFocus]_vars

(***************************************************************************)
(* The modals.  A modal reports itself visible while it holds the focus;   *)
(* it is dismissed by its own key handling, which hands the focus back to  *)
(* the Files panel through the event channel.                              *)
(***************************************************************************)
visible(flags, modal) == flags[modal]

\* App::is_popup_visible (app.rs:64-68)
is_popup_visible(flags) ==
    \/ visible(flags, "commit_popup")
    \/ visible(flags, "push_popup")
    \/ visible(flags, "error_popup")

\* git::commit::commit (commit.rs:28-49): the index becomes a commit on HEAD.
git_commit(r) ==
    [r EXCEPT !.history = @ + 1,
              !.status = [p \in Paths |->
                  IF r.status[p] \in StagedKinds THEN "Clean" ELSE r.status[p]]]

\* CommitPopup::handle_event; ok: whether the backend commit succeeded.
CommitPopupHandleEvent(flags, r, key, ok) ==
    IF ~visible(flags, "commit_popup") THEN Outcome("", r, <<>>, "Ok")
    ELSE CASE key = "Esc" -> Outcome("", r, <<Post("Focus", "FilesComponent")>>, "Ok")
           [] key = "Enter" ->
                IF ok
                THEN Outcome("", git_commit(r),
                             <<Call("commit", ""), Post("Git", "RefreshCommitLog"),
                               Post("Focus", "FilesComponent")>>, "Ok")
                ELSE Outcome("", r, <<Call("commit", "")>>, "Err")
           [] OTHER -> Outcome("", r, <<>>, "Ok")

\* PushPopup::handle_event: the push popup takes no key.
PushPopupHandleEvent(flags, key) == <<>>

\* ErrorComponent::handle_event: a key dismisses the dialog.
ErrorPopupHandleEvent(flags, key) ==
    IF visible(flags, "error_popup") /\ key \in {"Esc", "Enter"}
    THEN <<Post("Focus", "FilesComponent")>>
    ELSE <<>>

Offer(modal, key) == Fx("offer", modal, key)

\* App::handle_popup_event (app.rs:87-97) for Event::Input(key).
handle_popup_event(flags, r, key, ok) ==
    LET c == CommitPopupHandleEvent(flags, r, key, ok)
    IN  IF c.res = "Err"
        THEN Outcome("", c.repo, <<Offer("commit_popup", key)>> \o c.fx, "Err")
        ELSE Outcome("", c.repo,
                     <<Offer("commit_popup", key)>> \o c.fx
                       \o <<Offer("push_popup", key)>> \o PushPopupHandleEvent(flags, key)
                       \o <<Offer("error_popup", key)>> \o ErrorPopupHandleEvent(flags, key),
                     "Ok")

\* App::handle_git_event (app.rs:99-109) for GitEvent::PushSuccess.
PushSuccessMessage == "Push Successfull!"

(***************************************************************************)
(* The main loop: refresh and render, block on the event sources, route    *)
(* the next event.  A handler's Err becomes an Error event.                *)
(***************************************************************************)
AppKeys == {"j", "s", "u", "c", "p", "Esc", "Enter", "1", "4"}

NumberKeyTarget(key) ==
    CASE key = "1" -> "FilesComponent"
      [] key = "2" -> "BranchComponent"
      [] key = "3" -> "LogComponent"
      [] key = "4" -> "DiffComponent"

DidApp(op, arg, fx) == [op |-> op, arg |-> arg, prev |-> "None", fx |-> fx]

BackendError == Post("GitError", "not found")

Spawns(fx) == Len(SelectSeq(fx, LAMBDA e : e.kind = "spawn"))

\* Send the events of fx on the channel and start the workers it spawned.
Deliver(fx) ==
    /\ Len(events) + Len(Posts(fx)) <= MaxEvents
    /\ workers.running + workers.settle + Spawns(fx) <= MaxPush
    /\ events' = events \o Posts(fx)
    /\ workers' = [workers EXCEPT !.running = @ + Spawns(fx)]

\* The order in which App::update (app.rs:70-76) and App::hard_refresh
\* (app.rs:78-85) call the update functions of the panels.
UpdateOrder == <<"branches", "diff", "status", "files">>

HardRefreshOrder == <<"branches", "diff", "logs", "status", "files">>

\* The place of a panel in an order, Len + 1 if it is not in it.
IndexIn(order, name) ==
    IF \E i \in 1..Len(order) : order[i] = name
    THEN CHOOSE i \in 1..Len(order) : order[i] = name
    ELSE Len(order) + 1

\* A refresh pass: the update functions are called in order, each followed by
\* `?`; failed is the panel whose update returns an error ("none": no error).
\* The panels before it are updated, the call that failed and the ones after
\* it change nothing.
RefreshPass(order, failed) ==
    LET stop == IndexIn(order, failed)
        done(name) == IndexIn(order, name) < stop
        o1 == IF done("branches") THEN OthersUpdate(others, repo, "branches") ELSE others
    IN  [files |-> IF done("files") THEN FilesUpdate(files, repo, TRUE) ELSE files,
         diff |-> IF done("diff") THEN DiffUpdate(diff, repo, TRUE) ELSE diff,
         logs |-> IF done("logs") THEN LogUpdate(logs, repo, TRUE) ELSE logs,
         others |-> IF done("status") THEN OthersUpdate(o1, repo, "status") ELSE o1,
         fx |-> [i \in 1..Min(stop, Len(order)) |-> Call("update", order[i])],
         res |-> IF stop > Len(order) THEN "Ok" ELSE "Err"]

\* A mutant of handle_git_event: the history-changed event refreshes Files too.
HandleGitEventRefreshesFiles(ev, ok) ==
    IF ev = "PushSuccess"
    THEN [push_message |-> PushSuccessMessage, logs |-> logs, files |-> files, res |-> "Ok"]
    ELSE [push_message |-> push_message, logs |-> LogUpdate(logs, repo, ok),
          files |-> FilesUpdate(files, repo, ok), res |-> IF ok THEN "Ok" ELSE "Err"]

\* App::handle_git_event (app.rs:99-109); ok: whether fetch_history succeeded.
handle_git_event(ev, ok) ==
    IF ev = "PushSuccess"
    THEN [push_message |-> PushSuccessMessage, logs |-> logs, files |-> files, res |-> "Ok"]
    ELSE [push_message |-> push_message, logs |-> LogUpdate(logs, repo, ok),
          files |-> files, res |-> IF ok THEN "Ok" ELSE "Err"]

\* App::update (app.rs:70-76), then the draw; failed: the component whose update failed.
Refresh ==
    /\ pc = "loop"
    /\ \E failed \in {"none", "branches", "diff", "status", "files"} :
        LET pass == RefreshPass(UpdateOrder, failed)
            fx == IF failed = "none" THEN <<>> ELSE <<BackendError>>
        IN  /\ diff' = DiffDraw(pass.diff, MaxHeight)
            /\ files' = pass.files
            /\ others' = pass.others
            /\ Deliver(fx)
            /\ last' = DidApp("refresh", IF failed = "none" THEN "Ok" ELSE "Err", fx)
    /\ pc' = "recv"
    /\ UNCHANGED <<focused, focused_component, target, error_message, push_message,
                   logs, repo, panel, pushfn, mainfn, branchfn>>

\* The main loop takes a ProgramEvent off the channel.
RecvProgramEvent ==
    /\ pc = "recv"
    /\ events # <<>>
    /\ LET ev == Head(events)
       IN  /\ events' = Tail(events)
           /\ last' = DidApp("event", ev.type, <<>>)
           /\ CASE ev.type = "Focus" ->
                     /\ FocusDeactivate(ev.arg)
                     /\ UNCHANGED <<error_message, push_message, logs>>
                [] ev.type \in {"GitError", "Unknown"} ->
                     /\ display_error([kind |-> ev.type, msg |-> ev.arg])
                     /\ UNCHANGED <<push_message, logs>>
                [] ev.type = "Git" /\ ev.arg = "PushSuccess" ->
                     /\ push_message' = handle_git_event("PushSuccess", TRUE).push_message
                     /\ pc' = "loop"
                     /\ UNCHANGED <<focused, focused_component, target, error_message, logs>>
                [] ev.type = "Git" /\ ev.arg = "RefreshCommitLog" ->
                     /\ logs' = handle_git_event("RefreshCommitLog", TRUE).logs
                     /\ pc' = "loop"
                     /\ UNCHANGED <<focused, focused_component, target, error_message,
                                    push_message>>
                [] OTHER ->
                     /\ pc' = "loop"
                     /\ UNCHANGED <<focused, focused_component, target, error_message,
                                    push_message, logs>>
    /\ UNCHANGED <<workers, files, diff, repo, panel, pushfn, mainfn, others, branchfn>>

\* A key while a modal is visible: App::handle_popup_event.
RecvPopupKey ==
    /\ pc = "recv"
    /\ is_popup_visible(focused)
    /\ \E key \in AppKeys : \E ok \in BOOLEAN :
        LET out == handle_popup_event(focused, repo, key, ok)
            fx == IF out.res = "Err" THEN out.fx \o <<BackendError>> ELSE out.fx
        IN  /\ out.repo.history <= MaxCommits
            /\ repo' = out.repo
            /\ Deliver(fx)
            /\ last' = DidApp("popup_key", key, fx)
    /\ pc' = "loop"
    /\ UNCHANGED <<focused, focused_component, target, error_message, push_message,
                   panelVars, panel, pushfn, mainfn, others, branchfn>>

\* A number key with no modal visible: focus the panel of that number.
RecvNumberKey ==
    /\ pc = "recv"
    /\ ~is_popup_visible(focused)
    /\ \E key \in AppKeys \cap {"1", "2", "3", "4"} :
        /\ FocusDeactivate(NumberKeyTarget(key))
        /\ last' = DidApp("key", key, <<>>)
    /\ UNCHANGED <<appVars, panelVars, repo, panel, pushfn, mainfn, others, branchfn>>

\* Any other key with no modal visible goes to the focused panel's handle_event.
RecvPanelKey ==
    /\ pc = "recv"
    /\ ~is_popup_visible(focused)
    /\ \E key \in AppKeys \ {"1", "2", "3", "4"} : \E how \in FilesHows(key) :
       \E checked \in BOOLEAN :
        LET f == IF focused_component = "FilesComponent"
                 THEN FilesHandleEvent(files, focused["files"], repo, key, how)
                 ELSE Outcome(files, repo, <<>>, "Ok")
            l == IF focused_component = "LogComponent"
                 THEN LogHandleEvent(logs, focused["logs"], key, checked)
                 ELSE [comp |-> logs, res |-> "Ok"]
            fx == IF f.res = "Err" THEN f.fx \o <<BackendError>> ELSE f.fx
        IN  /\ f.repo.history <= MaxCommits
            /\ l.comp.position <= MaxPosition
            /\ files' = f.comp
            /\ repo' = f.repo
            /\ logs' = l.comp
            /\ diff' = IF focused_component = "DiffComponent"
                       THEN DiffHandleEvent(diff, focused["diff"], key)
                       ELSE diff
            /\ Deliver(fx)
            /\ pc' = IF l.res = "Panic" THEN "panicked" ELSE "loop"
            /\ last' = DidApp("key", key, fx)
    /\ UNCHANGED <<focused, focused_component, target, error_message, push_message, panel, pushfn, mainfn, others, branchfn>>

\* Event::Tick: App::handle_popup_event ignores it, and so do the panels.
RecvTick ==
    /\ pc = "recv"
    /\ pc' = "loop"
    /\ last' = DidApp("tick", "", <<>>)
    /\ UNCHANGED <<focused, focused_component, target, appVars, panelVars, repo, panel, pushfn, mainfn, others, branchfn>>

(***************************************************************************)
(* A push worker: the backend push fails or succeeds; after a success the  *)
(* worker waits the settle delay and hands the focus back to Files.        *)
(***************************************************************************)
WorkerFailed ==
    /\ workers.running > 0
    /\ Len(events) < MaxEvents
    /\ workers' = [workers EXCEPT !.running = @ - 1]
    /\ events' = Append(events, [type |-> "GitError", arg |-> "auth failed"])
    /\ UNCHANGED <<focusVars, error_message, push_message, panelVars, repo, panel, pushfn, mainfn, others, branchfn, last>>

WorkerSucceeded ==
    /\ workers.running > 0
    /\ Len(events) < MaxEvents
    /\ workers' = [running |-> workers.running - 1, settle |-> workers.settle + 1]
    /\ events' = Append(events, [type |-> "Git", arg |-> "PushSuccess"])
    /\ UNCHANGED <<focusVars, error_message, push_message, panelVars, repo, panel, pushfn, mainfn, others, branchfn, last>>

WorkerSettled ==
    /\ workers.settle > 0
    /\ Len(events) < MaxEvents
    /\ workers' = [workers EXCEPT !.settle = @ - 1]
    /\ events' = Append(events, [type |-> "Focus", arg |-> "FilesComponent"])
    /\ UNCHANGED <<focusVars, error_message, push_message, panelVars, repo, panel, pushfn, mainfn, others, branchfn, last>>

AppRepos == {[BaseRepo EXCEPT !.remote = b, !.status["b.rs"] = "Clean"] : b \in BOOLEAN}

Init == (\E r \in AppRepos : NewApp(r)) /\ panel = "none" /\ pushfn = NoPush /\ mainfn = NoMain /\ branchfn = NoBranch

Next ==
    \/ Refresh
    \/ RecvProgramEvent
    \/ RecvPopupKey
    \/ RecvNumberKey
    \/ RecvPanelKey
    \/ RecvTick
    \/ FocusActivate
    \/ WorkerFailed
    \/ WorkerSucceeded
    \/ WorkerSettled

Spec == Init /\ [][Next]_vars

(***************************************************************************)
(* App's refresh functions on their own: update, hard_refresh and          *)
(* handle_git_event called in any order on a new App, with the repository  *)
(* changing between the calls and the Files cursor moving.                 *)
(***************************************************************************)
InitApp ==
    /\ NewApp(BaseRepo)
    /\ panel = "none"
    /\ pushfn = NoPush /\ mainfn = NoMain /\ branchfn = NoBranch

AppFrame ==
    UNCHANGED <<focusVars, error_message, events, workers, panel, pushfn, mainfn, branchfn>>

\* App::update (app.rs:70-76)
CallUpdate ==
    \E failed \in {"none", "branches", "diff", "status", "files"} :
        LET pass == RefreshPass(UpdateOrder, failed)
        IN  /\ files' = pass.files /\ diff' = pass.diff /\ logs' = pass.logs
            /\ others' = pass.others
            /\ last' = Did("App::update", pass.res, pass.fx)
            /\ UNCHANGED <<push_message, repo>>
            /\ AppFrame

\* App::hard_refresh (app.rs:78-85)
CallHardRefresh ==
    \E failed \in {"none", "branches", "diff", "logs", "status", "files"} :
        LET pass == RefreshPass(HardRefreshOrder, failed)
        IN  /\ files' = pass.files /\ diff' = pass.diff /\ logs' = pass.logs
            /\ others' = pass.others
            /\ last' = Did("App::hard_refresh", pass.res, pass.fx)
            /\ UNCHANGED <<push_message, repo>>
            /\ AppFrame

\* App::handle_git_event (app.rs:99-109)
CallHandleGitEvent ==
    \E ev \in {"PushSuccess", "RefreshCommitLog"} : \E ok \in BOOLEAN :
        LET out == handle_git_event(ev, ok)
        IN  /\ push_message' = out.push_message
            /\ logs' = out.logs
            /\ files' = out.files
            /\ last' = Did("handle_git_event", ev, <<Fx("result", out.res, "")>>)
            /\ UNCHANGED <<diff, others, repo>>
            /\ AppFrame

\* The Files cursor moves: keys j and k in the focused Files panel.
AppScroll ==
    \E key \in {"j", "k"} :
        /\ files' = FilesHandleEvent(files, TRUE, repo, key, "ok").comp
        /\ files' # files
        /\ last' = Did("key", key, <<>>)
        /\ UNCHANGED <<push_message, diff, logs, others, repo>>
        /\ AppFrame

\* The repository changes: a file becomes clean or modified, the diff changes,
\* a commit is made, another branch is checked out.
AppBackendChange ==
    /\ \/ \E k \in {"Modified", "Clean"} : repo' = [repo EXCEPT !.status["a.rs"] = k]
       \/ \E d \in {<<"+x">>, <<"+x", "-y">>} : repo' = [repo EXCEPT !.diff = d]
       \/ repo.history < MaxCommits /\ repo' = [repo EXCEPT !.history = @ + 1]
       \/ \E b \in BranchNames : repo' = [repo EXCEPT !.branch = b]
    /\ repo' # repo
    /\ last' = Did("backend", "", <<>>)
    /\ UNCHANGED <<push_message, panelVars, others>>
    /\ AppFrame

NextApp ==
    \/ CallUpdate
    \/ CallHardRefresh
    \/ CallHandleGitEvent
    \/ AppScroll
    \/ AppBackendChange

SpecApp == InitApp /\ [][NextApp]_vars

(***************************************************************************)
(* git::remote::push (remote.rs:26-75), one call of it: open the           *)
(* repository, find the remote, read HEAD, run the backend push with its   *)
(* callbacks, then set the upstream branch.                                *)
(***************************************************************************)
\* `n as i8` for a non-negative n.
AsI8(n) == LET m == n % 256 IN IF m >= 128 THEN m - 256 ELSE m

\* A mutant of the callback: the quotient is scaled by 200 before `as i8`.
PercentageScaledTwice(current, total) ==
    IF total = 0 THEN 100 ELSE AsI8((current \div total) * 200)

\* The value the push_transfer_progress callback sends (remote.rs:47-55):
\* current.checked_div(total) is None when total = 0.
Percentage(current, total) ==
    IF total = 0 THEN 100 ELSE AsI8((current \div total) * 100)

\* A mutant of the `?` after remote.push: the error of the push is ignored.
AfterPushIgnoresError(ok) == "set_upstream"

\* Where push goes after remote.push returned (remote.rs:70): `?` returns the error.
AfterPush(ok) == IF ok THEN "set_upstream" ELSE "done"

Returned(p, res, at) ==
    [p EXCEPT !.pc = "done", !.returned = Append(@, res), !.failed = at]

PushFrame == UNCHANGED <<focusVars, appVars, panelVars, repo, panel, mainfn, others, branchfn, last>>

\* repo(repo_path)?, repo.find_remote(remote)? and head(repo_path)?
PushPrepare ==
    /\ pushfn.pc \in {"repo", "find_remote", "head"}
    /\ \E ok \in BOOLEAN :
        pushfn' = IF ~ok THEN Returned(pushfn, "Err", pushfn.pc)
                  ELSE IF pushfn.pc = "repo" THEN [pushfn EXCEPT !.pc = "find_remote"]
                  ELSE IF pushfn.pc = "find_remote" THEN [pushfn EXCEPT !.pc = "head"]
                  ELSE [pushfn EXCEPT !.pc = "pushing", !.pushes = @ + 1]
    /\ PushFrame

\* The credentials callback (remote.rs:33-45).
PushCredentials ==
    /\ pushfn.pc = "pushing"
    /\ \E allowed \in {"ssh_key", "ssh_key_no_username", "user_pass_plaintext", "default"} :
        pushfn' = IF allowed = "user_pass_plaintext"
                  THEN [pushfn EXCEPT !.pc = "panicked", !.failed = "credentials"]
                  ELSE pushfn
    /\ pushfn' # pushfn
    /\ PushFrame

\* The push_transfer_progress callback (remote.rs:47-55).
PushTransferProgress ==
    /\ pushfn.pc = "pushing"
    /\ Len(pushfn.sent) < MaxProgress
    /\ \E current \in pushfn.current..pushfn.total :
        pushfn' = [pushfn EXCEPT !.current = current,
                                 !.sent = Append(@, Percentage(current, pushfn.total))]
    /\ PushFrame

\* The push_update_reference callback (remote.rs:57-63): a rejected update panics.
PushUpdateReference ==
    /\ pushfn.pc = "pushing"
    /\ \E rejected \in BOOLEAN :
        pushfn' = IF rejected
                  THEN [pushfn EXCEPT !.pc = "panicked", !.failed = "update_reference"]
                  ELSE [pushfn EXCEPT !.pc = "updated"]
    /\ PushFrame

\* remote.push(&[refspec], Some(&mut options))? returns (remote.rs:70).
PushReturns ==
    /\ pushfn.pc \in {"pushing", "updated"}
    /\ \E ok \in BOOLEAN :
        /\ pushfn' = IF AfterPush(ok) = "done" THEN Returned(pushfn, "Err", "push")
                     ELSE [pushfn EXCEPT !.pc = "set_upstream",
                                         !.failed = IF ok THEN "none" ELSE "push"]
    /\ PushFrame

\* set_upstream_branch(repo_path, "origin", "master")?; Ok(()) (remote.rs:72-74).
PushSetUpstream ==
    /\ pushfn.pc = "set_upstream"
    /\ \E ok \in BOOLEAN :
        pushfn' = [Returned(pushfn, IF ok THEN "Ok" ELSE "Err",
                            IF ok THEN pushfn.failed
                            ELSE IF pushfn.failed = "none" THEN "set_upstream"
                            ELSE pushfn.failed)
                   EXCEPT !.upstream = @ + 1]
    /\ PushFrame

InitPush ==
    /\ NewApp(BaseRepo)
    /\ panel = "none"
    /\ mainfn = NoMain /\ branchfn = NoBranch
    /\ \E total \in 0..MaxTotal : pushfn = [NoPush EXCEPT !.pc = "repo", !.total = total]

NextPush ==
    \/ PushPrepare
    \/ PushCredentials
    \/ PushTransferProgress
    \/ PushUpdateReference
    \/ PushReturns
    \/ PushSetUpstream

SpecPush == InitPush /\ [][NextPush]_vars

(***************************************************************************)
(* main.rs: main sets the terminal up, spawns the input thread, runs       *)
(* run_app and restores the terminal.  The input thread (main.rs:87-104)   *)
(* polls the terminal and sends Input and Tick events over an mpsc channel *)
(* that run_app (main.rs:132-171) receives from.  Time is counted in units *)
(* of a quarter of a second.                                               *)
(***************************************************************************)
\* tick_rate = Duration::from_millis(500) (main.rs:85), in time units.
TickRate == 2

\* What the terminal delivers: the quit key, another key, an event that is no key.
TerminalEvents == {"q", "j", "resize"}

IsKey(e) == e \in {"q", "j"}

MainFrame == UNCHANGED <<focusVars, appVars, panelVars, repo, panel, pushfn, others, branchfn, last>>

\* The process is alive: main has not returned.
Running == mainfn.mpc \notin {"idle", "exit"}

\* The receiver lives in run_app's frame (main.rs:114, 132).
ReceiverAlive == mainfn.mpc \in {"setup", "draw", "recv"}

\* The user or the terminal produces an event.
TerminalEvent ==
    /\ Running
    /\ Len(mainfn.tty) < MaxTty
    /\ \E e \in TerminalEvents :
        mainfn' = [mainfn EXCEPT !.tty = Append(@, e), !.arrived = TRUE]
    /\ MainFrame

\* Time passes while the input thread waits in poll or in read.
TimePasses ==
    /\ Running
    /\ mainfn.ipc \in {"poll", "read"}
    /\ mainfn.tty = <<>>
    /\ mainfn.ipc = "poll" => mainfn.timeout > 0
    /\ mainfn.elapsed < MaxElapsed
    /\ mainfn' = [mainfn EXCEPT !.elapsed = @ + 1, !.timeout = Max(@ - 1, 0)]
    /\ MainFrame

\* tick_rate.checked_sub(last_tick.elapsed()).unwrap_or_else(0) (main.rs:90-92)
InputTimeout ==
    /\ Running
    /\ mainfn.ipc = "top"
    /\ mainfn' = [mainfn EXCEPT !.ipc = "poll", !.iter = <<>>,
                                !.timeout = Max(TickRate - mainfn.elapsed, 0)]
    /\ MainFrame

\* What poll(timeout) returns when it does not fail: Ok(true) with an event
\* available, Ok(false) when the timeout ran out.
PollResults ==
    (IF mainfn.tty # <<>> THEN {"Ok(true)"} ELSE {})
        \cup (IF mainfn.tty = <<>> /\ mainfn.timeout = 0 THEN {"Ok(false)"} ELSE {})

\* if poll(timeout).is_ok() (main.rs:94): Ok(true) and Ok(false) both go on to read().
AfterPoll(result) == IF result \in {"Ok(true)", "Ok(false)"} THEN "read" ELSE "tick"

InputPoll ==
    /\ Running
    /\ mainfn.ipc = "poll"
    /\ \E result \in PollResults :
        mainfn' = [mainfn EXCEPT !.ipc = AfterPoll(result)]
    /\ MainFrame

\* poll(timeout) returns an error.
InputPollFails ==
    /\ Running
    /\ mainfn.ipc = "poll"
    /\ mainfn' = [mainfn EXCEPT !.ipc = AfterPoll("Err")]
    /\ MainFrame

\* if let CEvent::Key(key) = read().expect(..) { tx.send(Event::Input(key)).expect(..) }
\* (main.rs:95-97): read blocks until the terminal has an event.
InputRead ==
    /\ Running
    /\ mainfn.ipc = "read"
    /\ mainfn.tty # <<>>
    /\ Len(mainfn.rx) < MaxChan
    /\ LET e == Head(mainfn.tty)
       IN  mainfn' =
             IF ~IsKey(e)
             THEN [mainfn EXCEPT !.tty = Tail(@), !.ipc = "tick"]
             ELSE IF ReceiverAlive
             THEN [mainfn EXCEPT !.tty = Tail(@), !.ipc = "tick",
                                 !.rx = Append(@, e), !.iter = Append(@, "Input")]
             ELSE [mainfn EXCEPT !.tty = Tail(@), !.ipc = "panicked"]
    /\ MainFrame

\* read() returns an error: expect panics and the thread, with the sender, is gone.
InputReadFails ==
    /\ Running
    /\ mainfn.ipc = "read"
    /\ mainfn' = [mainfn EXCEPT !.ipc = "panicked"]
    /\ MainFrame

\* if last_tick.elapsed() >= tick_rate && tx.send(Event::Tick).is_ok()
\*     { last_tick = Instant::now(); }      (main.rs:100-102)
InputTick ==
    /\ Running
    /\ mainfn.ipc = "tick"
    /\ Len(mainfn.rx) < MaxChan
    /\ mainfn' =
          IF mainfn.elapsed >= TickRate /\ ReceiverAlive
          THEN [mainfn EXCEPT !.ipc = "top", !.woke = TRUE, !.elapsed = 0,
                              !.rx = Append(@, "Tick"), !.iter = Append(@, "Tick")]
          ELSE [mainfn EXCEPT !.ipc = "top", !.woke = TRUE]
    /\ MainFrame

\* enable_raw_mode()?; Terminal::new(backend)?; terminal.clear()? (main.rs:107-111)
MainSetup ==
    /\ mainfn.mpc = "setup"
    /\ \E how \in {"ok", "raw_failed", "terminal_failed"} :
        mainfn' = IF how = "ok" THEN [mainfn EXCEPT !.mpc = "draw", !.raw = TRUE]
                  ELSE IF how = "raw_failed" THEN [mainfn EXCEPT !.mpc = "exit", !.ret = "Err"]
                  ELSE [mainfn EXCEPT !.mpc = "exit", !.ret = "Err", !.raw = TRUE]
    /\ MainFrame

\* terminal.draw(|f| ui(f, &mut app))? (main.rs:137): drawing hides the cursor.
RunAppDraw ==
    /\ mainfn.mpc = "draw"
    /\ \E ok \in BOOLEAN :
        mainfn' = IF ok THEN [mainfn EXCEPT !.mpc = "recv", !.cursor = FALSE,
                                            !.draws = @ + 1]
                  ELSE [mainfn EXCEPT !.mpc = "disable_raw_mode", !.res = "Err"]
    /\ MainFrame

\* A mutant of the key match: the quit key is handled like any other key.
AfterInputNeverReturns(code) == "draw"

\* A mutant of the key match: after a key that is not the quit key the loop
\* goes straight back to rx.recv().
AfterInputSkipsDraw(code) == IF code = "q" THEN "return" ELSE "recv"

\* The match on input.code (main.rs:141-163): q returns Ok(()), every other
\* key goes round the loop.
AfterInput(code) == IF code = "q" THEN "return" ELSE "draw"

\* The Err arm of match rx.recv() (main.rs:166-168): eprintln!, then the loop goes on.
AfterRecvError == "draw"

\* match rx.recv() (main.rs:139-169): recv blocks while the channel is empty
\* and the sender lives, and fails when it is empty and the sender is gone.
RunAppRecv ==
    /\ mainfn.mpc = "recv"
    /\ \/ /\ mainfn.rx # <<>>
          /\ LET event == Head(mainfn.rx)
                 next == IF event = "Tick" THEN "draw" ELSE AfterInput(event)
             IN  mainfn' =
                   IF next = "return"
                   THEN [mainfn EXCEPT !.rx = Tail(@), !.quit = TRUE, !.res = "Ok",
                                       !.mpc = "disable_raw_mode",
                                       !.handled = "Input"]
                   ELSE [mainfn EXCEPT !.rx = Tail(@), !.quit = (event = "q"),
                                       !.mpc = next, !.draws = 0,
                                       !.handled = IF event = "Tick" THEN "Tick" ELSE "Input"]
       \/ /\ mainfn.rx = <<>>
          /\ mainfn.ipc = "panicked"
          /\ mainfn' = [mainfn EXCEPT !.recv_failed = TRUE, !.mpc = AfterRecvError,
                                      !.draws = 0]
    /\ MainFrame

\* disable_raw_mode()?; execute!(.., LeaveAlternateScreen, DisableMouseCapture)?;
\* terminal.show_cursor()? (main.rs:117-123), each returning its error with `?`.
MainRestore ==
    /\ mainfn.mpc \in {"disable_raw_mode", "execute", "show_cursor"}
    /\ \E ok \in BOOLEAN :
        mainfn' =
          IF ~ok THEN [mainfn EXCEPT !.mpc = "exit", !.ret = "Err"]
          ELSE IF mainfn.mpc = "disable_raw_mode"
          THEN [mainfn EXCEPT !.mpc = "execute", !.raw = FALSE]
          ELSE IF mainfn.mpc = "execute"
          THEN [mainfn EXCEPT !.mpc = "show_cursor", !.left_screen = TRUE]
          ELSE [mainfn EXCEPT !.mpc = "return", !.cursor = TRUE]
    /\ MainFrame

\* if let Err(err) = res { println!(..) }; Ok(()) (main.rs:125-129)
MainReturn ==
    /\ mainfn.mpc = "return"
    /\ mainfn' = [mainfn EXCEPT !.mpc = "exit", !.ret = "Ok"]
    /\ MainFrame

InitMain ==
    /\ NewApp(BaseRepo)
    /\ panel = "none"
    /\ pushfn = NoPush
    /\ mainfn = [NoMain EXCEPT !.ipc = "top", !.mpc = "setup"]
    /\ branchfn = NoBranch

InputThread == InputTimeout \/ InputPoll \/ InputRead \/ InputTick

MainThread == MainSetup \/ RunAppDraw \/ RunAppRecv \/ MainRestore \/ MainReturn

NextMain ==
    \/ TerminalEvent
    \/ TimePasses
    \/ InputTimeout
    \/ InputPoll
    \/ InputPollFails
    \/ InputRead
    \/ InputReadFails
    \/ InputTick
    \/ MainSetup
    \/ RunAppDraw
    \/ RunAppRecv
    \/ MainRestore
    \/ MainReturn

SpecMain == InitMain /\ [][NextMain]_vars

\* Both threads are scheduled whenever they can take a step that is no failure,
\* and the clock runs whenever the input thread waits on it.
SpecMainLive ==
    SpecMain /\ WF_vars(InputThread) /\ WF_vars(MainThread) /\ SF_vars(TimePasses)

(***************************************************************************)
(* main.rs: the branch screen.  run_app's key match (main.rs:140-163)      *)
(* moves the selection of the active list, switches the active list and    *)
(* checks a branch out.  The repository is read anew by every handler      *)
(* (get_branches, main.rs:341-356), so it may have changed between keys.   *)
(***************************************************************************)
RemoteNames == {"origin/main", "origin/dev"}

\* The lists a repository can hold: no name twice.
ListsOver(names) ==
    {q \in UNION {[1..n -> names] : n \in 0..MaxBranches} :
        \A i, j \in 1..Len(q) : i # j => q[i] # q[j]}

InSeq(x, q) == \E i \in 1..Len(q) : q[i] = x

\* format!("refs/heads/{refname}") (main.rs:381)
FullRef(refname) == "refs/heads/" \o refname

\* &refname[7..] (main.rs:376): the name without its first seven bytes.
ShortName(refname) ==
    CASE refname = "origin/main" -> "main"
      [] refname = "origin/dev" -> "dev"
      [] OTHER -> ""

\* The list of the active widget and its selection.
ActiveList(b) == IF b.widget = "Local" THEN b.locals ELSE b.remotes

ActiveSelected(b) == IF b.widget = "Local" THEN b.local ELSE b.remote

Select(b, i) == IF b.widget = "Local" THEN [b EXCEPT !.local = i] ELSE [b EXCEPT !.remote = i]

\* BranchTypeState::next (main.rs:33-44)
BranchTypeNext(w) == IF w = "Local" THEN "Remote" ELSE "Local"

\* move_down (main.rs:246-266); listed: repo.branches(..) succeeded
\* (get_branches unwraps it); checked: the build traps overflow.
move_down(b, listed, checked) ==
    LET n == Len(ActiveList(b))
        selected == ActiveSelected(b)
    IN  IF ~listed THEN [b EXCEPT !.panic = "unwrap"]
        ELSE IF n = 0 /\ checked THEN [b EXCEPT !.panic = "overflow"]
        ELSE LET lim == IF n = 0 THEN UsizeMax ELSE n - 1
             IN  IF selected < lim THEN Select(b, selected + 1) ELSE b

\* move_up (main.rs:268-285)
move_up(b) ==
    IF ActiveSelected(b) > 0 THEN Select(b, ActiveSelected(b) - 1) ELSE b

\* The ways checkout_branch can go: every call of git2 succeeds, or the
\* named call is the first to fail.
CheckoutHows ==
    {"ok", "head", "statuses", "set_head", "checkout_head", "checkout_head_again",
     "checkout_head_again_set_head"}

\* checkout_branch (main.rs:379-397)
checkout_branch(b, refname, how) ==
    LET full_ref == FullRef(refname)
        cur_ref == b.head
    IN  IF how \in {"head", "statuses"} THEN [b EXCEPT !.ret = "Err"]
        ELSE IF b.dirty THEN [b EXCEPT !.ret = "Ok"]
        ELSE CASE how = "set_head" -> [b EXCEPT !.ret = "Err"]
               [] how = "checkout_head" -> [b EXCEPT !.head = full_ref, !.ret = "Err"]
               [] how = "checkout_head_again" -> [b EXCEPT !.head = cur_ref, !.ret = "Err"]
               [] how = "checkout_head_again_set_head" ->
                      [b EXCEPT !.head = full_ref, !.ret = "Err"]
               [] OTHER -> [b EXCEPT !.head = full_ref, !.ret = "Ok", !.completed = TRUE]

\* select_branch (main.rs:220-244) with get_branch_name_by_index
\* (main.rs:359-362) and new_branch (main.rs:372-377); listed: repo.branches
\* succeeded; found: revparse_ext found the remote branch's commit.
select_branch(b, listed, found, how) ==
    LET index == ActiveSelected(b)
        list == ActiveList(b)
    IN  IF ~listed THEN [b EXCEPT !.panic = "unwrap"]
        ELSE IF index >= Len(list) THEN [b EXCEPT !.panic = "expect"]
        ELSE IF b.widget = "Local" THEN checkout_branch(b, list[index + 1], how)
        ELSE LET name == ShortName(list[index + 1])
             IN  IF ~found THEN [b EXCEPT !.panic = "expect"]
                 ELSE IF InSeq(name, b.locals) THEN [b EXCEPT !.panic = "unwrap"]
                 ELSE checkout_branch([b EXCEPT !.locals = Append(@, name)], name, how)

\* A key reaches run_app's match: what the handlers' records start from.
Handling(b, key) ==
    [b EXCEPT !.key = key, !.before = b.head, !.ret = "none", !.completed = FALSE]

BranchFrame ==
    UNCHANGED <<focusVars, appVars, panelVars, repo, panel, pushfn, mainfn, others, last>>

BranchRunning == branchfn.panic = "none"

\* KeyCode::Char('j') (main.rs:148-150)
BranchKeyJ ==
    /\ BranchRunning
    /\ \E listed, checked \in BOOLEAN :
         LET b == move_down(Handling(branchfn, "j"), listed, checked)
         IN  /\ b.local <= MaxSelected /\ b.remote <= MaxSelected
             /\ branchfn' = b
    /\ BranchFrame

\* KeyCode::Char('k') (main.rs:151-153)
BranchKeyK ==
    /\ BranchRunning
    /\ branchfn' = move_up(Handling(branchfn, "k"))
    /\ BranchFrame

\* KeyCode::Char('n') (main.rs:154-158); control: the key came with Ctrl.
BranchKeyN ==
    /\ BranchRunning
    /\ \E control \in BOOLEAN :
         branchfn' = IF control
                     THEN [Handling(branchfn, "^n") EXCEPT !.widget = BranchTypeNext(@)]
                     ELSE Handling(branchfn, "n")
    /\ BranchFrame

\* KeyCode::Char('d') (main.rs:142-144)
BranchKeyD ==
    /\ BranchRunning
    /\ branchfn' = [Handling(branchfn, "d") EXCEPT !.show_delete_branch = ~@]
    /\ BranchFrame

\* KeyCode::Enter (main.rs:159-161)
BranchKeyEnter ==
    /\ BranchRunning
    /\ \E listed, found \in BOOLEAN, how \in CheckoutHows :
         branchfn' = select_branch(Handling(branchfn, "Enter"), listed, found, how)
    /\ BranchFrame

\* Another process creates or deletes branches, or edits the working tree.
BranchesChange ==
    /\ BranchRunning
    /\ \E locals \in ListsOver(BranchNames), remotes \in ListsOver(RemoteNames),
          dirty \in BOOLEAN :
         /\ <<locals, remotes, dirty>> # <<branchfn.locals, branchfn.remotes, branchfn.dirty>>
         /\ branchfn' = [branchfn EXCEPT !.locals = locals, !.remotes = remotes,
                                         !.dirty = dirty, !.key = ""]
    /\ BranchFrame

InitBranches ==
    /\ NewApp(BaseRepo)
    /\ panel = "none"
    /\ pushfn = NoPush /\ mainfn = NoMain
    /\ \E locals \in ListsOver(BranchNames), remotes \in ListsOver(RemoteNames),
          name \in BranchNames, dirty \in BOOLEAN :
         branchfn = [NoBranch EXCEPT !.locals = locals, !.remotes = remotes,
                                     !.head = FullRef(name), !.dirty = dirty]

NextBranches ==
    \/ BranchKeyJ
    \/ BranchKeyK
    \/ BranchKeyN
    \/ BranchKeyD
    \/ BranchKeyEnter
    \/ BranchesChange

SpecBranches == InitBranches /\ [][NextBranches]_vars

(***************************************************************************)
(* git/branch.rs: checkout_remote_branch, set_upstream_branch and          *)
(* delete_branch over a repository of local branches, remote-tracking      *)
(* branches, HEAD and the upstream of each local branch.  A branch name is *)
(* the sequence of its characters.  In this part branchfn holds the        *)
(* repository and how the last call ended.                                 *)
(***************************************************************************)
\* The remote-tracking branches a repository may hold: o/m, o/f/x and o/fx.
RemotePool == {<<"o", "/", "m">>, <<"o", "/", "f", "/", "x">>, <<"o", "/", "f", "x">>}

\* The local branches a repository may hold: m, f/x and fx.
LocalPool == {<<"m">>, <<"f", "/", "x">>, <<"f", "x">>}

NoUpstream == <<>>

RECURSIVE SplitFrom(_, _, _)
SplitFrom(s, cur, acc) ==
    IF s = <<>> THEN Append(acc, cur)
    ELSE IF Head(s) = "/" THEN SplitFrom(Tail(s), <<>>, Append(acc, cur))
    ELSE SplitFrom(Tail(s), Append(cur, Head(s)), acc)

\* str::split('/') (branch.rs:38): the pieces between the slashes.
Split(s) == SplitFrom(s, <<>>, <<>>)

\* [&str]::join(sep) (branch.rs:40)
RECURSIVE Join(_, _)
Join(segs, sep) ==
    IF segs = <<>> THEN <<>>
    ELSE IF Len(segs) = 1 THEN segs[1]
    ELSE segs[1] \o sep \o Join(Tail(segs), sep)

\* does_local_branch_exist (branch.rs:134-136)
does_local_branch_exist(st, name) == name \in st.locals

\* The ways a call of branch.rs can go: every call of git2 succeeds where the
\* repository allows it, or the named call fails.
BranchHows == {"ok", "repo", "branch", "checkout_tree", "set_head", "find_branch", "set_upstream"}

\* set_upstream_branch (branch.rs:124-132); git2 sets an upstream only to a
\* branch that exists.
set_upstream_branch(st, remote_name, branch_name, how) ==
    LET upstream == remote_name \o <<"/">> \o branch_name
    IN  IF how \in {"repo", "find_branch"} \/ branch_name \notin st.locals
        THEN [st EXCEPT !.ret = "Err"]
        ELSE IF st.upstream[branch_name] # NoUpstream THEN [st EXCEPT !.ret = "Ok"]
        ELSE IF how = "set_upstream" \/ upstream \notin st.remotes
        THEN [st EXCEPT !.ret = "Err"]
        ELSE [st EXCEPT !.upstream[branch_name] = upstream, !.ret = "Ok"]

\* checkout_remote_branch (branch.rs:36-66)
checkout_remote_branch(st, remote_branch_name, how) ==
    LET remote == Split(remote_branch_name)
        remote_name == Head(remote)
        name == Join(Tail(remote), <<>>)
        created == [st EXCEPT !.locals = @ \cup {name}, !.upstream[name] = NoUpstream]
    IN  IF how = "repo" THEN [st EXCEPT !.ret = "Err"]
        ELSE IF does_local_branch_exist(st, name) THEN [st EXCEPT !.ret = "Err"]
        ELSE IF remote_branch_name \notin st.remotes THEN [st EXCEPT !.ret = "Panic"]
        ELSE IF how = "branch" THEN [st EXCEPT !.ret = "Err"]
        ELSE IF how = "checkout_tree" THEN [created EXCEPT !.ret = "Err"]
        ELSE IF how = "set_head" THEN [created EXCEPT !.ret = "Panic"]
        ELSE set_upstream_branch([created EXCEPT !.head = name], remote_name, name, how)

\* delete_branch (branch.rs:68-73); git2 refuses to delete the branch HEAD is on.
delete_branch(st, branch_name, how) ==
    IF how # "ok" \/ branch_name \notin st.locals \/ st.head = branch_name
    THEN [st EXCEPT !.ret = "Err"]
    ELSE [st EXCEPT !.locals = @ \ {branch_name}, !.upstream[branch_name] = NoUpstream,
                    !.ret = "Ok"]

\* The repository as a call finds it.
Snapshot(st) == [locals |-> st.locals, head |-> st.head, upstream |-> st.upstream]

Calling(st, op, arg) == [st EXCEPT !.op = op, !.arg = arg, !.before = Snapshot(st), !.ret = "none"]

CheckoutFrame ==
    UNCHANGED <<focusVars, appVars, panelVars, repo, panel, pushfn, mainfn, others, last>>

CheckoutRunning == branchfn.ret # "Panic"

CallCheckoutRemoteBranch ==
    /\ CheckoutRunning
    /\ \E remote_branch_name \in RemotePool, how \in BranchHows :
         branchfn' = checkout_remote_branch(
                         Calling(branchfn, "checkout_remote_branch", remote_branch_name),
                         remote_branch_name, how)
    /\ CheckoutFrame

CallDeleteBranch ==
    /\ CheckoutRunning
    /\ \E branch_name \in LocalPool, how \in {"ok", "repo", "find_branch"} :
         branchfn' = delete_branch(Calling(branchfn, "delete_branch", branch_name),
                                   branch_name, how)
    /\ CheckoutFrame

\* A fetch brings a remote-tracking branch in or prunes one.
RemotesChange ==
    /\ CheckoutRunning
    /\ \E remotes \in SUBSET RemotePool :
         /\ remotes # branchfn.remotes
         /\ \A n \in branchfn.locals :
              branchfn.upstream[n] # NoUpstream => branchfn.upstream[n] \in remotes
         /\ branchfn' = [branchfn EXCEPT !.remotes = remotes, !.op = "fetch"]
    /\ CheckoutFrame

InitCheckout ==
    /\ NewApp(BaseRepo)
    /\ panel = "none"
    /\ pushfn = NoPush /\ mainfn = NoMain
    /\ \E locals \in SUBSET LocalPool, remotes \in SUBSET RemotePool, head \in LocalPool :
         /\ head \in locals
         /\ branchfn = [locals |-> locals, remotes |-> remotes, head |-> head,
                        upstream |-> [n \in LocalPool |-> NoUpstream],
                        op |-> "", arg |-> <<>>, ret |-> "none",
                        before |-> [locals |-> locals, head |-> head,
                                    upstream |-> [n \in LocalPool |-> NoUpstream]]]

NextCheckout ==
    \/ CallCheckoutRemoteBranch
    \/ CallDeleteBranch
    \/ RemotesChange

SpecCheckout == InitCheckout /\ [][NextCheckout]_vars

(***************************************************************************)
(* The scroll window on its own: any sequence of DiffComponent::scroll_up  *)
(* and scroll_down calls (diff.rs:140-148) on a drawn Diff panel.          *)
(***************************************************************************)
\* selected and offset as the window keeps them: the cursor is a row of the
\* list and lies inside the visible rows.
WindowInvariant(w) ==
    IF w.size = 0 THEN w.selected = 0
    ELSE /\ w.selected < w.size
         /\ w.offset <= w.selected
         /\ w.selected < w.offset + w.height

Windows ==
    {w \in [offset : 0..MaxSize, height : 1..MaxHeight, size : 0..MaxSize,
            selected : 0..MaxSize] :
        /\ WindowInvariant(w)
        /\ w.size = 0 => w.offset = 0}

\* A Diff panel that has been drawn and scrolled before.
InitWindow ==
    /\ focused = [c \in Fields |-> c = "diff"]
    /\ focused_component = "DiffComponent"
    /\ pc = "loop" /\ target = "None"
    /\ error_message = "" /\ push_message = ""
    /\ events = <<>>
    /\ workers = [running |-> 0, settle |-> 0]
    /\ files = [files |-> <<>>, position |-> 0]
    /\ logs = [logs |-> <<>>, position |-> 0]
    /\ others = NewOthers
    /\ repo = BaseRepo
    /\ last = NoOp
    /\ panel = "diff"
    /\ pushfn = NoPush /\ mainfn = NoMain /\ branchfn = NoBranch
    /\ \E w \in Windows :
        diff = [diffs |-> [i \in 1..w.size |-> "+x"], window |-> w]

ScrollFrame ==
    UNCHANGED <<focusVars, appVars, files, logs, repo, panel, pushfn, mainfn, others, branchfn>>

\* DiffComponent::scroll_up (diff.rs:140-143)
DiffScrollUp ==
    \E i \in 0..MaxAmount :
        /\ diff' = [diff EXCEPT !.window = WindowScroll(@, "Up", i)]
        /\ last' = Did("scroll", "Up", <<Fx("arg", "amount", i), Fx("arg", "before", diff.window)>>)
        /\ ScrollFrame

\* DiffComponent::scroll_down (diff.rs:145-148)
DiffScrollDown ==
    \E i \in 0..MaxAmount :
        /\ diff' = [diff EXCEPT !.window = WindowScroll(@, "Down", i)]
        /\ last' = Did("scroll", "Down", <<Fx("arg", "amount", i), Fx("arg", "before", diff.window)>>)
        /\ ScrollFrame

NextWindow ==
    \/ DiffScrollUp
    \/ DiffScrollDown

SpecWindow == InitWindow /\ [][NextWindow]_vars

(***************************************************************************)
(* The focus router (SpecFocus).                                           *)
(***************************************************************************)
Focused == {c \in Fields : focused[c]}

\* C1: at most one component has its focused flag set in every reachable state,
\* the state between the two _focus calls included; once focus(t) has returned,
\* every set flag is the flag of t's component, focused_component is t, and the
\* component of a target App::_focus matches has its flag set.
C1_AtMostOneFocused ==
    /\ Cardinality(Focused) <= 1
    /\ (pc = "loop" /\ last.op = "focus") =>
          /\ focused_component = last.arg
          /\ Focused \subseteq {FieldOf(last.arg)}
          /\ last.arg \in AppComponentType \ {"None"} => Focused = {FieldOf(last.arg)}

C1_Witness ==
    /\ pc = "loop" /\ last.op = "focus"
    /\ last.prev = "FilesComponent" /\ last.arg = "DiffComponent"
    /\ Focused = {"diff"}

\* C9: after display_error(e) the error dialog holds e's message,
\* focused_component is the error dialog, its flag is set and the flag of the
\* component focused before is cleared.
C9_ErrorDialogFocused ==
    (pc = "loop" /\ last.op = "display_error") =>
        /\ error_message = last.fx[1].arg
        /\ focused_component = "ErrorComponent"
        /\ focused["error_popup"]
        /\ \A c \in Fields \ {"error_popup"} : ~focused[c]

C9_Witness ==
    /\ pc = "loop" /\ last.op = "display_error"
    /\ last.arg = "GitError" /\ last.prev = "FilesComponent"
    /\ error_message = "auth failed"
    /\ Focused = {"error_popup"}

(***************************************************************************)
(* The main loop with the push workers (Spec).                             *)
(***************************************************************************)
\* C2: at most one push is running at any time, whatever keys are pressed.
C2_AtMostOnePushRunning == workers.running <= 1

\* The step is the main loop handling key p in the focused Files panel with a
\* remote configured and no backend error.
PushKeyStep ==
    /\ pc = "recv" /\ pc' # "recv"
    /\ last'.op = "key" /\ last'.arg = "p"
    /\ focused_component = "FilesComponent" /\ focused["files"]
    /\ repo.remote
    /\ \A i \in 1..Len(last'.fx) : last'.fx[i].type # "GitError"

C4_FocusActivatesEveryTarget ==
    (pc \in {"loop", "recv"} /\ focused_component # "None") =>
        /\ FieldOf(focused_component) \in Fields
        /\ focused[FieldOf(focused_component)]

\* The modals in the order a key was offered to them.
Offers(fx) ==
    LET os == SelectSeq(fx, LAMBDA e : e.kind = "offer")
    IN  [i \in 1..Len(os) |-> os[i].type]

\* C8: a key that arrives while a modal is visible is offered to the modals in
\* the order error dialog, push progress, commit prompt.
C8_ErrorDialogOfferedFirst ==
    last.op = "popup_key" =>
        Offers(last.fx) = <<"error_popup", "push_popup", "commit_popup">>

(***************************************************************************)
(* App's refresh functions (SpecApp).                                      *)
(***************************************************************************)
\* The panels whose update a pass called.
Refreshed(fx) == {fx[i].arg : i \in 1..Len(fx)}

\* C23: a refresh pass of App that returned Ok has called the update of all five
\* panels, and the Log snapshot is the history as it is at the end of the pass.
C23_PassRefreshesAllPanels ==
    (last.op \in {"App::update", "App::hard_refresh"} /\ last.arg = "Ok") =>
        /\ Refreshed(last.fx) = {"branches", "diff", "logs", "status", "files"}
        /\ logs.logs = fetch_history(repo)

\* C24: handling RefreshCommitLog changes nothing but the Log snapshot, which
\* becomes the history when the backend call succeeds; handling PushSuccess
\* changes nothing but the push popup's message.
C24_GitEventTouchesOnlyItsTarget ==
    [][last'.op = "handle_git_event" =>
        /\ UNCHANGED <<focusVars, error_message, events, workers, files, diff, others, repo>>
        /\ logs'.position = logs.position
        /\ last'.arg = "RefreshCommitLog" =>
              /\ push_message' = push_message
              /\ logs'.logs \in {logs.logs, fetch_history(repo)}
              /\ last'.fx[1].type = "Ok" => logs'.logs = fetch_history(repo)
        /\ last'.arg = "PushSuccess" =>
              /\ logs' = logs
              /\ push_message' = PushSuccessMessage]_vars

C24_Witness ==
    /\ last.op = "handle_git_event" /\ last.arg = "RefreshCommitLog"
    /\ last.fx[1].type = "Ok"
    /\ logs.logs = fetch_history(repo) /\ Len(logs.logs) = MaxCommits
    /\ files.position = 1
    /\ files.files # <<>> /\ files.files # get_file_status(repo)
    /\ others.branches # repo.branch

C11_RejectedUpdateIsAnError ==
    pushfn.failed = "update_reference" =>
        /\ pushfn.pc # "panicked"
        /\ pushfn.pc = "done" => pushfn.returned = <<"Err">>

\* C12: every value the transfer-progress callback sent lies in 0..100 and the
\* values sent during one push, with current non-decreasing and total fixed,
\* are non-decreasing; total = 0 included.
C12_ProgressInRangeAndMonotonic ==
    /\ \A i \in 1..Len(pushfn.sent) : pushfn.sent[i] \in 0..100
    /\ \A i \in 1..Len(pushfn.sent) : \A j \in i..Len(pushfn.sent) :
            pushfn.sent[i] <= pushfn.sent[j]

C12_Witness ==
    /\ pushfn.total = MaxTotal /\ pushfn.current = MaxTotal
    /\ pushfn.sent = <<0, 100>>

\* C28: with total > 0 the value the transfer-progress callback sent last is
\* floor(100 * current / total).
C28_PercentageIsProportional ==
    (pushfn.sent # <<>> /\ pushfn.total > 0) =>
        pushfn.sent[Len(pushfn.sent)] = (100 * pushfn.current) \div pushfn.total

(***************************************************************************)
(* The input thread, run_app and main (SpecMain, SpecMainLive).            *)
(***************************************************************************)
\* C13: every finished iteration of the input thread's loop has sent exactly one
\* event, an Input or a Tick.
C13_OneEventPerWakeUp ==
    (mainfn.ipc = "top" /\ mainfn.woke) => Len(mainfn.iter) = 1

\* C14: while the process runs, the input thread has not failed and the
\* terminal delivers nothing, the input thread sends a Tick again and again.
C14_TicksWithoutKeys ==
    [](Running /\ mainfn.ipc # "panicked" /\ ~mainfn.arrived)
        => []<>(mainfn.ipc = "top" /\ mainfn.iter = <<"Tick">>)

\* C15: once rx.recv() has failed, run_app's loop neither draws nor receives again.
C15_RecvFailureStopsLoop ==
    mainfn.recv_failed => mainfn.mpc \notin {"draw", "recv"}

RestoreSteps == {"disable_raw_mode", "execute", "show_cursor", "return", "exit"}

C25_OneRenderPerIteration ==
    /\ [](mainfn.mpc = "recv" => mainfn.draws = 1)
    /\ [][Len(mainfn'.rx) < Len(mainfn.rx)
            => /\ mainfn.mpc = "recv" /\ mainfn.draws = 1
               /\ ~mainfn'.quit => (mainfn'.mpc = "draw" /\ mainfn'.draws = 0)]_vars

C25_Witness ==
    /\ mainfn.mpc = "recv" /\ mainfn.draws = 1
    /\ mainfn.handled = "Tick"
    /\ mainfn.rx # <<>>

(***************************************************************************)
(* The branch screen (SpecBranches).                                       *)
(***************************************************************************)
\* C29: when checkout_branch has returned without completing a checkout, HEAD
\* is the reference it was before the call.
C29_HeadUnchangedUnlessCheckedOut ==
    (branchfn.key = "Enter" /\ branchfn.ret # "none" /\ ~branchfn.completed)
        => branchfn.head = branchfn.before

\* C30: after j or k no subtraction has overflowed and the selection of the
\* active list is within [0, max(n - 1, 0)]; the key leaves the selection of
\* the other list as it was.
C30_SelectionStaysInList ==
    /\ [](branchfn.key \in {"j", "k"} /\ branchfn.panic # "unwrap"
            => /\ branchfn.panic = "none"
               /\ ActiveSelected(branchfn) <= Max(Len(ActiveList(branchfn)) - 1, 0))
    /\ [][branchfn'.key \in {"j", "k"} /\ branchfn' # branchfn
            => IF branchfn.widget = "Local" THEN branchfn'.remote = branchfn.remote
                                            ELSE branchfn'.local = branchfn.local]_vars

(***************************************************************************)
(* Checking a remote branch out (SpecCheckout).                            *)
(***************************************************************************)
\* R/B without its leading segment R and the slash after it.
AfterRemote(remote_branch_name) == Join(Tail(Split(remote_branch_name)), <<"/">>)

\* C31: after checkout_remote_branch(R/B): if a local branch B existed the call
\* returned an error and the repository is as it was; otherwise, when the call
\* returned Ok, the local branch B exists, HEAD is on it and its upstream is R/B.
C31_RemoteCheckoutCreatesNamedBranch ==
    (branchfn.op = "checkout_remote_branch" /\ branchfn.ret # "none")
        => LET B == AfterRemote(branchfn.arg)
           IN  IF B \in branchfn.before.locals
               THEN branchfn.ret = "Err" /\ Snapshot(branchfn) = branchfn.before
               ELSE branchfn.ret = "Ok"
                        => /\ B \in branchfn.locals
                           /\ branchfn.head = B
                           /\ branchfn.upstream[B] = branchfn.arg

(***************************************************************************)
(* The scroll window (SpecWindow).                                         *)
(***************************************************************************)
Abs(n) == IF n < 0 THEN -n ELSE n

\* The offsets that show row sel in a window of the given height.
Showing(height, sel) == {o \in 0..MaxSize : o <= sel /\ sel < o + height}

\* C17: scroll(direction, amount) moves selected by amount in the direction,
\* clamped to 0..size-1, and moves offset by the least distance that shows the
\* selected row; after every scroll call selected < size and
\* offset <= selected < offset + height when size > 0; and the call
\* scroll(Down, 50) on size 100, height 10, selected 5, offset 0 gives
\* selected 55, offset 46.
C17_ScrollClampsAndFollows ==
    /\ WindowInvariant(diff.window)
    /\ (last.op = "scroll" /\ diff.window.size > 0) =>
          LET amount == last.fx[1].arg
              before == last.fx[2].arg
              w == diff.window
          IN  /\ w.size = before.size /\ w.height = before.height
              /\ w.selected = IF last.arg = "Down"
                               THEN Min(before.selected + amount, w.size - 1)
                               ELSE Max(before.selected - amount, 0)
              /\ w.offset \in Showing(w.height, w.selected)
              /\ \A o \in Showing(w.height, w.selected) :
                    Abs(w.offset - before.offset) <= Abs(o - before.offset)
    /\ WindowScroll([offset |-> 0, height |-> 10, size |-> 100, selected |-> 5], "Down", 50)
          = [offset |-> 46, height |-> 10, size |-> 100, selected |-> 55]

C17_Witness ==
    /\ last.op = "scroll" /\ last.arg = "Down" /\ last.fx[1].arg = MaxAmount
    /\ last.fx[2].arg = [offset |-> 0, height |-> 2, size |-> MaxSize, selected |-> 0]
    /\ diff.window.selected = 3 /\ diff.window.offset = 2

(***************************************************************************)
(* The panels, each on its own (SpecPanels).                               *)
(***************************************************************************)
\* The snapshot holds an entry whose status kind is IndexModified, Added or Deleted.
SnapshotHasStaged ==
    \E i \in 1..Len(files.files) : files.files[i].status_type \in StagedKinds

\* C5: with the Files panel focused, key c posts exactly one Focus(commit prompt)
\* event if the snapshot holds a staged entry, and posts nothing otherwise.
C5_CommitKeyPostsIffStaged ==
    [][(panel = "files" /\ focused["files"] /\ last'.op = "key" /\ last'.arg = "c")
        => Posts(last'.fx) =
             IF SnapshotHasStaged
             THEN <<[type |-> "Focus", arg |-> "CommitComponent"]>>
             ELSE <<>>]_vars

C5_Witness ==
    /\ panel = "files" /\ focused["files"]
    /\ last.op = "key" /\ last.arg = "c"
    /\ Len(Posts(last.fx)) = 1
    /\ Len(files.files) = 2
    /\ \A i \in 1..2 : files.files[i].status_type = "Deleted"

\* C6: after a refresh that returned Ok the panel's snapshot is what the backend
\* returned (for Files: the placeholder row when the backend returned nothing).
C6_SnapshotIsBackendAfterUpdate ==
    (last.op = "update" /\ last.arg = "Ok") =>
        /\ panel = "diff" => diff.diffs = get_diff(repo)
        /\ panel = "logs" => logs.logs = fetch_history(repo)
        /\ panel = "files" =>
             files.files = IF get_file_status(repo) = <<>> THEN <<Placeholder>>
                           ELSE get_file_status(repo)

\* C7: handle_event on a panel whose focused flag is false changes no panel state,
\* calls no backend function and posts no event, whatever the key.
C7_UnfocusedKeyChangesNothing ==
    [][(panel \in Panels /\ ~focused[panel] /\ last'.op = "key")
        => /\ UNCHANGED <<files, diff, logs, repo, events, workers, pc>>
           /\ last'.fx = <<>>]_vars

C7_Witness ==
    /\ panel = "files" /\ ~focused["files"]
    /\ last.op = "key" /\ last.arg = "j"
    /\ Len(files.files) = 2 /\ files.position = 0

\* C18: in the Log panel the cursor stays on an entry (position < len when there
\* are entries, position = 0 when there are none) and no key makes the index
\* arithmetic underflow or panic.
C18_LogCursorInBounds ==
    panel = "logs" =>
        /\ pc # "panicked"
        /\ logs.position < Max(Len(logs.logs), 1)

\* C19: after every Files refresh that returned Ok the cursor is on an entry of
\* the snapshot.
C19_FilesCursorClampedAfterUpdate ==
    (panel = "files" /\ last.op = "update" /\ last.arg = "Ok") =>
        files.position < Len(files.files)

\* C20: a refresh that follows a refresh that returned Ok, with no backend
\* change in between, leaves the panel's snapshot as the first call left it.
C20_SecondUpdateChangesNothing ==
    [][(last.op = "update" /\ last.arg = "Ok" /\ last'.op = "update")
        => UNCHANGED <<files, diff, logs>>]_vars

C20_Witness ==
    /\ panel = "files"
    /\ last.op = "update" /\ last.arg = "Ok"
    /\ last.fx = <<Fx("arg", "again", "")>>
    /\ get_file_status(repo) = <<>>
    /\ files.files = <<Placeholder>>

\* The path of the entry under the Files cursor.
PathUnderCursor == files.files[files.position + 1].path

\* C21: in the focused Files panel, with the cursor on an entry, key a makes the
\* backend call that stages that entry, key A the call that stages all, key u
\* the call that unstages that entry and key U the call that unstages all.
C21_StagingKeys ==
    [][(panel = "files" /\ focused["files"] /\ pc = "loop" /\ last'.op = "key"
            /\ files.position < Len(files.files))
        => /\ last'.arg = "a" => Calls(last'.fx) = <<Call("stage_file", PathUnderCursor)>>
           /\ last'.arg = "A" => Calls(last'.fx) = <<Call("stage_all", "")>>
           /\ last'.arg = "u" => Calls(last'.fx) = <<Call("unstage_file", PathUnderCursor)>>
           /\ last'.arg = "U" => Calls(last'.fx) = <<Call("unstage_all", "")>>]_vars

\* The cursor and the length of the list of the panel under test.
Cursor(f, d, l) ==
    CASE panel = "files" -> f.position
      [] panel = "diff" -> d.window.selected
      [] OTHER -> l.position

ListLen ==
    CASE panel = "files" -> Len(files.files)
      [] panel = "diff" -> Len(diff.diffs)
      [] OTHER -> Len(logs.logs)

\* C22: in a focused list panel whose cursor is on an entry, plain j moves the
\* cursor down by one, stopping at the last entry, and plain k moves it up by
\* one, stopping at the first.
C22_PlainJKMoveCursor ==
    [][(panel \in Panels /\ focused[panel] /\ pc = "loop" /\ last'.op = "key"
            /\ Cursor(files, diff, logs) < ListLen)
        => /\ last'.arg = "j" =>
                Cursor(files', diff', logs') = Min(Cursor(files, diff, logs) + 1, ListLen - 1)
           /\ last'.arg = "k" =>
                Cursor(files', diff', logs') = Max(Cursor(files, diff, logs) - 1, 0)]_vars

\* C26: every full commit that took the input lock has posted at most one Error
\* event, then ClearTerminal exactly once, and has unparked the input thread
\* as its last step.
C26_CommitFullReleasesLock ==
    (panel = "files" /\ last.op = "key" /\ last.arg = "C" /\ last.fx # <<>>) =>
        LET fx == last.fx
            posts == Posts(fx)
        IN  /\ fx[1] = Fx("lock", "input_lock", "")
            /\ fx[Len(fx)] = Fx("unpark", "input_lock", "")
            /\ Len(posts) \in {1, 2}
            /\ posts[Len(posts)].type = "ClearTerminal"
            /\ Len(posts) = 2 => posts[1].type \in {"GitError", "Unknown"}
            /\ pc # "panicked"

\* C27: key s and key u pass to the backend only paths of entries the backend
\* reported: on the placeholder row and beyond the end of the list they make
\* no backend call and return Ok.
C27_StageOneOnlyRealPaths ==
    (panel = "files" /\ last.op = "key" /\ last.arg \in {"s", "u"}) =>
        \A i \in 1..Len(last.fx) :
            last.fx[i].kind = "call" => last.fx[i].arg \in Paths


====
